---- MODULE Spec2Model ----
(***************************************************************************)
(* A model of matrix-fx-bot (src/src/main.rs, src/src/types.rs): the      *)
(* session supervisor (run / run_session_once), the message handler       *)
(* (on_room_message / post_tweet), the invite handler with its join       *)
(* retry task (on_stripped_state_member) and the signal task.             *)
(***************************************************************************)
EXTENDS Integers, Sequences, FiniteSets, TLC

VARIABLES
    sup,        \* position of run / run_session_once
    sleepFor,   \* seconds of the restart sleep in progress (0: none)
    err,        \* the error e of the while-let loop of run: the step that failed
    shouldDie,  \* SHOULD_DIE is set
    sigTask,    \* the signal task spawned by run: "waiting" or "done"
    ev,         \* the event the sync response of this iteration delivered
    hpc,        \* position of on_room_message / post_tweet
    links,      \* on_room_message: the Vec links
    idx,        \* on_room_message: index of the link the for loop is at
    tweet,      \* post_tweet: the tweet of the parsed response
    to_upload,  \* post_tweet: the Vec to_upload
    calls,      \* the external calls made for the current link, in order
    hist,       \* one summary per link the for loop has finished
    acks,       \* "IKIRU" sends issued for the current message
    ret,        \* on_room_message: where it returned for the last message
    status,     \* post_tweet: the status of the answer of api.fxtwitter.com
    typers,     \* typer tasks alive (spawned and not yet aborted)
    jt          \* the join task of each room

vars == <<sup, sleepFor, err, shouldDie, sigTask, ev, hpc, links, idx, tweet,
          to_upload, calls, hist, acks, ret, status, typers, jt>>

supVars == <<sup, sleepFor, err>>
msgVars == <<hpc, links, idx, tweet, to_upload, calls, hist, acks, ret, status>>

(***************************************************************************)
(* Bounds of the model and constants of the program.                       *)
(***************************************************************************)
\* longest message body, in tokens
MaxBody == 3
\* most typer tasks alive at once
MaxTypers == 2

\* run: the sleep between two sessions, in seconds
RestartDelay == 10
\* on_stripped_state_member: first retry delay and the ceiling, in seconds
InitialDelay == 2
DelayCeiling == 3600

\* Option<T>: None is the empty sequence, Some(x) the sequence of x alone
None == <<>>
Some(x) == <<x>>
IsSome(o) == o # <<>>
Unwrap(o) == o[1]
Me == "@fx:hs"
Other == "@alice:hs"

(***************************************************************************)
(* Message bodies are sequences of tokens.  A token is white space, a     *)
(* word, or a piece of text linkify reports as a link.                     *)
(***************************************************************************)
Space == " "
LinkTokens ==
    { "https://x.com/u/status/1", "https://X.COM/u/status/1",
      "https://fxtwitter.com/v/status/2", "http://x.com/u/status/1",
      "https://evil.com/u/status/1", "https://x.com/u", "a@b.c" }
Tokens == LinkTokens \cup {Space, "!die", "!status"}

RECURSIVE SeqsUpTo(_, _)
SeqsUpTo(S, n) ==
    IF n = 0 THEN {<<>>}
    ELSE LET shorter == SeqsUpTo(S, n - 1)
         IN  shorter \cup {Append(s, x) : s \in {t \in shorter : Len(t) = n - 1}, x \in S}

Bodies == SeqsUpTo(Tokens, MaxBody)

\* the components of a link token as written in the body; None when the
\* token has no URL syntax (an e-mail address: Url::from_str fails on it)
Written(t) ==
    CASE t = "https://x.com/u/status/1" ->
            Some([scheme |-> "https", host |-> "x.com", path |-> <<"u", "status", "1">>])
      [] t = "https://X.COM/u/status/1" ->
            Some([scheme |-> "https", host |-> "X.COM", path |-> <<"u", "status", "1">>])
      [] t = "https://fxtwitter.com/v/status/2" ->
            Some([scheme |-> "https", host |-> "fxtwitter.com", path |-> <<"v", "status", "2">>])
      [] t = "http://x.com/u/status/1" ->
            Some([scheme |-> "http", host |-> "x.com", path |-> <<"u", "status", "1">>])
      [] t = "https://evil.com/u/status/1" ->
            Some([scheme |-> "https", host |-> "evil.com", path |-> <<"u", "status", "1">>])
      [] t = "https://x.com/u" ->
            Some([scheme |-> "https", host |-> "x.com", path |-> <<"u">>])
      [] OTHER -> None

AsciiLower(h) == IF h = "X.COM" THEN "x.com" ELSE h

\* Url::from_str: the host of an http(s) URL is stored lower-cased
UrlFromStr(t) ==
    LET w == Written(t)
    IN  IF w = None THEN None
        ELSE Some([scheme |-> Unwrap(w).scheme, host |-> AsciiLower(Unwrap(w).host),
                   path |-> Unwrap(w).path])

TARGETS ==
    { "cunnyx.com", "fixupx.com", "fixvx.com", "fxtwitter.com", "girlcockx.com",
      "hitlerx.com", "nitter.net", "nitter.poast.org", "twitter.com",
      "twittpr.com", "vxtwitter.com", "x.com", "xcancel.com", "xfixup.com" }

\* l.path().contains("/status/"): a segment "status" that another follows
PathContainsStatus(path) == \E i \in 1..(Len(path) - 1) : path[i] = "status"

\* KeepLink without the test of the scheme
KeepLink_anyScheme(l) ==
    /\ l.host # ""
    /\ AsciiLower(l.host) \in TARGETS
    /\ PathContainsStatus(l.path)

\* the filters of on_room_message on one parsed link
KeepLink(l) ==
    /\ l.scheme = "https" /\ l.host # ""
    /\ AsciiLower(l.host) \in TARGETS
    /\ PathContainsStatus(l.path)

\* FindLinks collecting the links in the reverse order
RECURSIVE FindLinks_reversed(_)
FindLinks_reversed(body) ==
    IF body = <<>> THEN <<>>
    ELSE LET t == Head(body)
             rest == FindLinks_reversed(Tail(body))
         IN  IF t \in LinkTokens /\ IsSome(UrlFromStr(t)) /\ KeepLink(Unwrap(UrlFromStr(t)))
             THEN rest \o <<Unwrap(UrlFromStr(t))>>
             ELSE rest

\* LinkFinder::links + filter_map + the three filters + collect
RECURSIVE FindLinks(_)
FindLinks(body) ==
    IF body = <<>> THEN <<>>
    ELSE LET t == Head(body)
             rest == FindLinks(Tail(body))
         IN  IF t \in LinkTokens /\ IsSome(UrlFromStr(t)) /\ KeepLink(Unwrap(UrlFromStr(t)))
             THEN <<Unwrap(UrlFromStr(t))>> \o rest
             ELSE rest

\* Vec::dedup: removes consecutive repeated elements
RECURSIVE Dedup(_)
Dedup(s) ==
    IF Len(s) <= 1 THEN s
    ELSE IF s[1] = s[2] THEN Dedup(Tail(s))
         ELSE <<s[1]>> \o Dedup(Tail(s))

\* str::trim on the token level: leading and trailing white space removed
RECURSIVE TrimStart(_)
TrimStart(b) == IF b # <<>> /\ Head(b) = Space THEN TrimStart(Tail(b)) ELSE b
RECURSIVE TrimEnd(_)
TrimEnd(b) ==
    IF b # <<>> /\ b[Len(b)] = Space THEN TrimEnd(SubSeq(b, 1, Len(b) - 1)) ELSE b
Trim(b) == TrimEnd(TrimStart(b))

(***************************************************************************)
(* Events a sync response can deliver to the two handlers run_session_once *)
(* installs.                                                               *)
(***************************************************************************)
Rooms == {"!r1", "!r2"}
RoomNames == {None, Some("fx test"), Some("lobby")}

MsgEvents ==
    [kind : {"msg"}, room_state : {"Joined", "Invited"}, sender : {Me, Other},
     encrypted : BOOLEAN, replacement : BOOLEAN, msgtype : {"text", "image"},
     body : Bodies]
InviteEvents ==
    [kind : {"invite"}, state_key : {Me, Other}, room : Rooms, name : RoomNames]
NoEvent == [kind |-> "none"]

\* the tweets api.fxtwitter.com can answer with (types.rs: Tweet, Media)
\* a video is named by its type and format, a photo by its file extension
VideoLists ==
    {None, Some(<<>>), Some(<<"mp4">>), Some(<<"gif">>), Some(<<"badformat">>),
     Some(<<"gif", "mp4">>), Some(<<"mp4", "gif">>)}
PhotoLists == {None, Some(<<>>), Some(<<"jpg">>), Some(<<"png">>), Some(<<"png", "jpg">>)}
Medias == [videos : VideoLists, mosaic : {None, Some("mosaic")}, photos : PhotoLists]
Tweets == [media : {None} \cup {Some(m) : m \in Medias}]

\* on_room_message has not returned for a message of this sync iteration
NoReturn == [at |-> "none", held |-> "none"]

\* a join task before tokio::spawn runs it
NoJoinTask ==
    [pc |-> "none", delay |-> 0, attempts |-> 0, waits |-> <<>>, joined |-> FALSE,
     log |-> <<>>]

Init ==
    /\ sup = "load" /\ sleepFor = 0 /\ err = None
    /\ shouldDie = FALSE /\ sigTask = "waiting"
    /\ ev = NoEvent
    /\ hpc = "idle" /\ links = <<>> /\ idx = 0
    /\ tweet = None /\ to_upload = <<>> /\ calls = <<>> /\ hist = <<>> /\ acks = 0
    /\ ret = NoReturn /\ status = None
    /\ typers = 0
    /\ jt = [r \in Rooms |-> NoJoinTask]

Running == sup \notin {"exited", "crashed"}

(***************************************************************************)
(* run: the signal task                                                    *)
(***************************************************************************)
Signals == {"Int", "Quit", "Term", "Hup"}
RecvErr == "RecvErr"

\* one recv of the task run spawns: Int, Quit and Term leave the while-let
\* loop by break, an Err of recv ends it, and SHOULD_DIE is set; any other
\* signal is skipped
SignalTask ==
    /\ Running /\ sigTask = "waiting"
    /\ \E signal \in Signals \cup {RecvErr} :
          IF signal \in {"Int", "Quit", "Term", RecvErr}
          THEN sigTask' = "done" /\ shouldDie' = TRUE
          ELSE UNCHANGED <<sigTask, shouldDie>>
    /\ UNCHANGED <<supVars, ev, msgVars, typers, jt>>

(***************************************************************************)
(* run and run_session_once: the supervisor                                *)
(***************************************************************************)
\* SessionErr with the error returned from run with `?`, ending the process
SessionErr_propagated(e) ==
    /\ sup' = "exited"
    /\ sleepFor' = 0
    /\ err' = Some(e)

\* run_session_once returned Err(e): the body of the while-let loop of run
\* prints e and sleeps
SessionErr(e) ==
    /\ sup' = "sleeping"
    /\ sleepFor' = RestartDelay
    /\ err' = Some(e)

\* run_session_once returned Ok: the while-let loop ends and run returns Ok
SessionOk ==
    /\ sup' = "exited"
    /\ sleepFor' = 0
    /\ err' = None

\* a fallible step of run_session_once: `?` returns its error to run
Step(from, to) ==
    /\ sup = from
    /\ \E ok \in BOOLEAN :
          IF ok THEN sup' = to /\ UNCHANGED <<sleepFor, err>> ELSE SessionErr(from)
    /\ UNCHANGED <<shouldDie, sigTask, ev, msgVars, typers, jt>>

Load == Step("load", "build")
Build == Step("build", "restore_session")
RestoreSession == Step("restore_session", "sync_once")
SyncOnce == Step("sync_once", "max_upload_size")
MaxUploadSize == Step("max_upload_size", "sync")

\* tokio::time::sleep(10 s) is over: the next run_session_once starts
Restart ==
    /\ sup = "sleeping"
    /\ sup' = "load" /\ sleepFor' = 0 /\ err' = None
    /\ UNCHANGED <<shouldDie, sigTask, ev, msgVars, typers, jt>>

\* one iteration of sync_with_callback: the sync request fails (the error is
\* returned with `?`), or answers with no event for the handlers, or with one
SyncIteration ==
    /\ sup = "sync"
    /\ \/ SessionErr("sync") /\ ev' = NoEvent
       \/ sup' = "callback" /\ ev' = NoEvent /\ UNCHANGED <<sleepFor, err>>
       \/ /\ typers < MaxTypers
          /\ ev' \in MsgEvents \cup InviteEvents
          /\ sup' = "dispatch" /\ UNCHANGED <<sleepFor, err>>
    /\ UNCHANGED <<shouldDie, sigTask, msgVars, typers, jt>>

\* the callback given to sync_with_callback, run after each iteration: Break
\* ends the session with Ok, Continue starts the next iteration (what the
\* handlers of this iteration left is forgotten)
Callback ==
    /\ sup = "callback"
    /\ IF shouldDie
       THEN SessionOk /\ UNCHANGED msgVars
       ELSE /\ sup' = "sync" /\ UNCHANGED <<sleepFor, err>>
            /\ hpc' = "idle" /\ links' = <<>> /\ idx' = 0 /\ tweet' = None
            /\ to_upload' = <<>> /\ calls' = <<>> /\ hist' = <<>> /\ acks' = 0
            /\ ret' = NoReturn /\ status' = None
    /\ UNCHANGED <<shouldDie, sigTask, ev, typers, jt>>

(***************************************************************************)
(* on_stripped_state_member and the join task it spawns                    *)
(***************************************************************************)
\* the condition of the third early return: name != "fx test" || true
AutojoinReturns(name) == name # "fx test" \/ TRUE

\* the join task at tokio::spawn: "Autojoining room" printed, delay = 2
SpawnedJoinTask ==
    [pc |-> "join", delay |-> InitialDelay, attempts |-> 0, waits |-> <<>>,
     joined |-> FALSE, log |-> <<"Autojoining room">>]

OnStrippedStateMember ==
    /\ sup = "dispatch" /\ ev.kind = "invite"
    /\ IF ev.state_key # Me THEN UNCHANGED jt
       ELSE IF ev.name = None THEN UNCHANGED jt
       ELSE IF AutojoinReturns(Unwrap(ev.name)) THEN UNCHANGED jt
       ELSE jt' = [jt EXCEPT ![ev.room] = SpawnedJoinTask]
    /\ sup' = "callback" /\ ev' = NoEvent
    /\ UNCHANGED <<sleepFor, err, shouldDie, sigTask, msgVars, typers>>

\* NextDelay growing by a constant instead of doubling
NextDelay_additive(delay) == delay + 2

\* the delay of the next retry
NextDelay(delay) == delay * 2

\* room.join() of the while-let loop: Ok ends the loop, and the task prints
\* its last line
JoinAttempt(r) ==
    /\ jt[r].pc = "join"
    /\ \E ok \in BOOLEAN :
          jt' = [jt EXCEPT ![r] =
                    IF ok
                    THEN [@ EXCEPT !.attempts = @ + 1, !.joined = TRUE, !.pc = "done",
                                   !.log = Append(@, "Successfully joined room")]
                    ELSE [@ EXCEPT !.attempts = @ + 1, !.pc = "sleep",
                                   !.log = Append(@, "Failed to join room")]]
    /\ UNCHANGED <<supVars, shouldDie, sigTask, ev, msgVars, typers>>

\* the body of the while-let loop after the sleep: the delay is doubled, and
\* over the ceiling the loop is left by break; the task prints its last line
JoinSleep(r) ==
    /\ jt[r].pc = "sleep"
    /\ jt' = [jt EXCEPT ![r] =
                 IF NextDelay(jt[r].delay) > DelayCeiling
                 THEN [@ EXCEPT !.waits = Append(@, jt[r].delay),
                                !.delay = NextDelay(@), !.pc = "done",
                                !.log = @ \o <<"Can't join room", "Successfully joined room">>]
                 ELSE [@ EXCEPT !.waits = Append(@, jt[r].delay),
                                !.delay = NextDelay(@), !.pc = "join"]]
    /\ UNCHANGED <<supVars, shouldDie, sigTask, ev, msgVars, typers>>

(***************************************************************************)
(* on_room_message                                                         *)
(***************************************************************************)
\* Ignored without the return for an edit of a message
Ignored_processesEdits(e) ==
    \/ e.room_state # "Joined"
    \/ e.sender = Me
    \/ ~e.encrypted
    \/ e.msgtype # "text"

\* Ignored without the return for a room that is not encrypted
Ignored_skipsEncryptionCheck(e) ==
    \/ e.room_state # "Joined"
    \/ e.sender = Me
    \/ e.replacement
    \/ e.msgtype # "text"

\* the early returns before the message text is looked at
Ignored(e) ==
    \/ e.room_state # "Joined"
    \/ e.sender = Me
    \/ ~e.encrypted
    \/ e.replacement
    \/ e.msgtype # "text"

\* the return the early returns take, in the order of the code
EarlyReturn(e) ==
    IF e.room_state # "Joined" THEN "not joined"
    ELSE IF e.sender = Me THEN "own message"
    ELSE IF ~e.encrypted THEN "not encrypted"
    ELSE IF e.replacement THEN "edit"
    ELSE IF e.msgtype # "text" THEN "not text"
    ELSE "none"

IsStatusCommand(body) == Trim(body) = <<"!status">>
\* IsDieCommand comparing with another spelling of the command
IsDieCommand_misspelt(body) == body = <<"!Die">>
IsDieCommand(body) == body = <<"!die">>

\* what the handler finds in the body of a message: a command, links the
\* filters keep, or neither
Held(body) ==
    IF IsStatusCommand(body) THEN "!status"
    ELSE IF IsDieCommand(body) THEN "!die"
    ELSE IF FindLinks(body) # <<>> THEN "links"
    ELSE "other"

\* on_room_message returned at the return named at, for a message whose body
\* held what Held names ("none": it is in its for loop over the links)
Returned(at, body) == [at |-> at, held |-> Held(body)]

\* on_room_message from its start to its return, or to the first await of
\* post_tweet for the first link
OnRoomMessage ==
    /\ sup = "dispatch" /\ ev.kind = "msg"
    /\ ev' = NoEvent
    /\ IF Ignored(ev)
       THEN /\ ret' = Returned(EarlyReturn(ev), ev.body)
            /\ sup' = "callback"
            /\ UNCHANGED <<shouldDie, hpc, links, idx, tweet, to_upload, calls, hist, acks,
                           status, typers>>
       ELSE IF IsStatusCommand(ev.body)
       THEN /\ acks' = acks + 1
            /\ ret' = Returned("status", ev.body)
            /\ sup' = "callback"
            /\ UNCHANGED <<shouldDie, hpc, links, idx, tweet, to_upload, calls, hist,
                           status, typers>>
       ELSE IF IsDieCommand(ev.body)
       THEN /\ shouldDie' = TRUE
            /\ ret' = Returned("die", ev.body)
            /\ sup' = "callback"
            /\ UNCHANGED <<hpc, links, idx, tweet, to_upload, calls, hist, acks, status,
                           typers>>
       ELSE IF FindLinks(ev.body) = <<>>
       THEN /\ ret' = Returned("no links", ev.body)
            /\ sup' = "callback"
            /\ UNCHANGED <<shouldDie, hpc, links, idx, tweet, to_upload, calls, hist, acks,
                           status, typers>>
       ELSE /\ typers' = typers + 1
            /\ links' = Dedup(FindLinks(ev.body))
            /\ idx' = 1 /\ hpc' = "resolve"
            /\ ret' = Returned("none", ev.body)
            /\ sup' = "dispatch"
            /\ UNCHANGED <<shouldDie, tweet, to_upload, calls, hist, acks, status>>
    /\ UNCHANGED <<sleepFor, err, sigTask, jt>>

(***************************************************************************)
(* post_tweet                                                              *)
(***************************************************************************)
Call(op, ok) == [op |-> op, ok |-> ok]

\* what the for loop of on_room_message remembers of a finished link
Summary(link, cs, ok) ==
    [link |-> link, ok |-> ok,
     text |-> Call("text", TRUE) \in {cs[i] : i \in 1..Len(cs)},
     att  |-> Call("attach", TRUE) \in {cs[i] : i \in 1..Len(cs)}]

\* post_tweet returns: Err through one of its `?`, or Ok
Returns(ok) == hpc' = IF ok THEN "ret_ok" ELSE "ret_err"

\* the GET of api.fxtwitter.com and the parse of its answer
ResolveOutcomes == {"send error", "not FxApiResponse JSON", "tweet None", "tweet"}

\* the status codes the answer can carry; post_tweet reads the body of the
\* answer whatever its status is
StatusCodes == {200, 404}

Resolve ==
    /\ sup = "dispatch" /\ hpc = "resolve"
    /\ \E r \in ResolveOutcomes :
          /\ calls' = <<Call("resolve", r = "tweet")>>
          /\ IF r = "send error" THEN status' = None
             ELSE \E code \in StatusCodes : status' = Some(code)
          /\ IF r = "tweet"
             THEN \E t \in Tweets : tweet' = Some(t) /\ hpc' = "send_text"
             ELSE tweet' = None /\ Returns(FALSE)
    /\ to_upload' = <<>>
    /\ UNCHANGED <<supVars, shouldDie, sigTask, ev, links, idx, hist, acks, ret, typers, jt>>

\* the panics of the media selection: videos[0] and photos[0] of an empty
\* Vec, and unwrap of the parse of a video format that is no MIME type
SelectPanics(media) ==
    IF IsSome(media.videos)
    THEN \/ Unwrap(media.videos) = <<>>
         \/ Unwrap(media.videos)[1] = "badformat"
    ELSE IF IsSome(media.mosaic) THEN FALSE
    ELSE IF IsSome(media.photos) THEN Unwrap(media.photos) = <<>>
    ELSE FALSE

\* the Vec to_upload the if / else-if chain fills
Select(media) ==
    IF IsSome(media.videos)
    THEN LET video == Unwrap(media.videos)[1]
         IN  IF video = "gif"
             THEN <<[kind |-> "gif", item |-> video, content_type |-> "image/gif",
                     thumbnail_url |-> FALSE]>>
             ELSE <<[kind |-> "video", item |-> video, content_type |-> "video/mp4",
                     thumbnail_url |-> TRUE]>>
    ELSE IF IsSome(media.mosaic)
    THEN <<[kind |-> "mosaic", item |-> Unwrap(media.mosaic),
            content_type |-> "image/webp", thumbnail_url |-> FALSE]>>
    ELSE IF IsSome(media.photos)
    THEN LET photo == Unwrap(media.photos)[1]
         IN  <<[kind |-> "photo", item |-> photo,
                content_type |-> IF photo = "jpg" THEN "image/jpeg" ELSE "image/png",
                thumbnail_url |-> FALSE]>>
    ELSE <<>>

\* a panic unwinds through the sync loop and run: main returns the JoinError
\* and the process ends, with every task of the runtime
Panics ==
    /\ sup' = "crashed" /\ UNCHANGED <<sleepFor, err>>
    /\ hpc' = "panicked"
    /\ typers' = 0

\* SendText sending the text again after a failed send
SendText_retries ==
    /\ sup = "dispatch" /\ hpc = "send_text"
    /\ \E ok \in BOOLEAN :
          /\ calls' = Append(calls, Call("text", ok))
          /\ IF ~ok
             THEN /\ IF Len(calls) < 2 THEN hpc' = "send_text" ELSE Returns(FALSE)
                  /\ UNCHANGED <<supVars, to_upload, typers>>
             ELSE IF Unwrap(tweet).media = None
             THEN Returns(TRUE) /\ UNCHANGED <<supVars, to_upload, typers>>
             ELSE IF SelectPanics(Unwrap(Unwrap(tweet).media))
             THEN Panics /\ UNCHANGED to_upload
             ELSE /\ to_upload' = Select(Unwrap(Unwrap(tweet).media))
                  /\ hpc' = "upload"
                  /\ UNCHANGED <<supVars, typers>>
    /\ UNCHANGED <<shouldDie, sigTask, ev, links, idx, tweet, hist, acks, ret, status, jt>>

\* room.send(textmsg), then the selection of the media to upload
SendText ==
    /\ sup = "dispatch" /\ hpc = "send_text"
    /\ \E ok \in BOOLEAN :
          /\ calls' = Append(calls, Call("text", ok))
          /\ IF ~ok
             THEN Returns(FALSE) /\ UNCHANGED <<supVars, to_upload, typers>>
             ELSE IF Unwrap(tweet).media = None
             THEN Returns(TRUE) /\ UNCHANGED <<supVars, to_upload, typers>>
             ELSE IF SelectPanics(Unwrap(Unwrap(tweet).media))
             THEN Panics /\ UNCHANGED to_upload
             ELSE /\ to_upload' = Select(Unwrap(Unwrap(tweet).media))
                  /\ hpc' = "upload"
                  /\ UNCHANGED <<supVars, typers>>
    /\ UNCHANGED <<shouldDie, sigTask, ev, links, idx, tweet, hist, acks, ret, status, jt>>

\* Upload going on to the attachment when the GET of the main file failed
Upload_ignoresFetchError ==
    /\ sup = "dispatch" /\ hpc = "upload"
    /\ IF to_upload = <<>>
       THEN Returns(TRUE) /\ UNCHANGED calls
       ELSE \E ok \in BOOLEAN :
               /\ calls' = Append(calls, Call("fetch", ok))
               /\ hpc' = IF Head(to_upload).thumbnail_url THEN "thumbnail" ELSE "attach"
    /\ UNCHANGED <<supVars, shouldDie, sigTask, ev, links, idx, tweet, to_upload, hist,
                   acks, ret, status, typers, jt>>

\* the for loop over to_upload: it ends, or GETs the main file
Upload ==
    /\ sup = "dispatch" /\ hpc = "upload"
    /\ IF to_upload = <<>>
       THEN Returns(TRUE) /\ UNCHANGED calls
       ELSE \E ok \in BOOLEAN :
               /\ calls' = Append(calls, Call("fetch", ok))
               /\ IF ~ok THEN Returns(FALSE)
                  ELSE hpc' = IF Head(to_upload).thumbnail_url THEN "thumbnail" ELSE "attach"
    /\ UNCHANGED <<supVars, shouldDie, sigTask, ev, links, idx, tweet, to_upload, hist,
                   acks, ret, status, typers, jt>>

\* Thumbnail going on to the attachment when the GET of the thumbnail failed
Thumbnail_ignoresError ==
    /\ sup = "dispatch" /\ hpc = "thumbnail"
    /\ \E ok \in BOOLEAN :
          /\ calls' = Append(calls, Call("thumbnail", ok))
          /\ hpc' = "attach"
    /\ UNCHANGED <<supVars, shouldDie, sigTask, ev, links, idx, tweet, to_upload, hist,
                   acks, ret, status, typers, jt>>

\* the GET of the thumbnail
Thumbnail ==
    /\ sup = "dispatch" /\ hpc = "thumbnail"
    /\ \E ok \in BOOLEAN :
          /\ calls' = Append(calls, Call("thumbnail", ok))
          /\ IF ok THEN hpc' = "attach" ELSE Returns(FALSE)
    /\ UNCHANGED <<supVars, shouldDie, sigTask, ev, links, idx, tweet, to_upload, hist,
                   acks, ret, status, typers, jt>>

\* room.send_attachment, and the next turn of the for loop over to_upload
SendAttachment ==
    /\ sup = "dispatch" /\ hpc = "attach"
    /\ \E ok \in BOOLEAN :
          /\ calls' = Append(calls, Call("attach", ok))
          /\ IF ok
             THEN to_upload' = Tail(to_upload) /\ hpc' = "upload"
             ELSE to_upload' = to_upload /\ Returns(FALSE)
    /\ UNCHANGED <<supVars, shouldDie, sigTask, ev, links, idx, tweet, hist, acks,
                   ret, status, typers, jt>>

\* NextLink leaving the for loop over links when post_tweet returned Err
NextLink_stopsOnError ==
    /\ sup = "dispatch" /\ hpc \in {"ret_ok", "ret_err"}
    /\ hist' = Append(hist, Summary(links[idx], calls, hpc = "ret_ok"))
    /\ IF idx < Len(links) /\ hpc = "ret_ok"
       THEN idx' = idx + 1 /\ hpc' = "resolve" /\ sup' = sup
       ELSE idx' = idx /\ hpc' = "done" /\ sup' = "callback"
    /\ ret' = IF hpc' = "done" THEN [ret EXCEPT !.at = "end"] ELSE ret
    /\ calls' = <<>> /\ tweet' = None /\ to_upload' = <<>> /\ status' = None
    /\ UNCHANGED <<sleepFor, err, shouldDie, sigTask, ev, links, acks, typers, jt>>

\* post_tweet has returned: the error is printed, and the for loop over links
\* goes to the next link, or ends: the task aborting the typer is spawned and
\* on_room_message returns
NextLink ==
    /\ sup = "dispatch" /\ hpc \in {"ret_ok", "ret_err"}
    /\ hist' = Append(hist, Summary(links[idx], calls, hpc = "ret_ok"))
    /\ IF idx < Len(links)
       THEN idx' = idx + 1 /\ hpc' = "resolve" /\ sup' = sup
       ELSE idx' = idx /\ hpc' = "done" /\ sup' = "callback"
    /\ ret' = IF hpc' = "done" THEN [ret EXCEPT !.at = "end"] ELSE ret
    /\ calls' = <<>> /\ tweet' = None /\ to_upload' = <<>> /\ status' = None
    /\ UNCHANGED <<sleepFor, err, shouldDie, sigTask, ev, links, acks, typers, jt>>

\* the typer tasks on_room_message has left to the tasks that abort them
Leaving == typers - (IF hpc \in {"idle", "done", "panicked"} THEN 0 ELSE 1)

\* a task spawned at the end of on_room_message: after 1 s, typer.abort()
AbortTyper ==
    /\ Running /\ Leaving > 0
    /\ typers' = typers - 1
    /\ UNCHANGED <<supVars, shouldDie, sigTask, ev, msgVars, jt>>

Next ==
    \/ SignalTask
    \/ Load \/ Build \/ RestoreSession \/ SyncOnce \/ MaxUploadSize
    \/ Restart \/ SyncIteration \/ Callback
    \/ OnStrippedStateMember
    \/ OnRoomMessage \/ Resolve \/ SendText \/ Upload \/ Thumbnail \/ SendAttachment
    \/ NextLink
    \/ AbortTyper

Spec == Init /\ [][Next]_vars

\* the task of async_main: run, and the handlers the sync loop awaits
MainTask ==
    \/ Load \/ Build \/ RestoreSession \/ SyncOnce \/ MaxUploadSize
    \/ Restart \/ SyncIteration \/ Callback
    \/ OnStrippedStateMember
    \/ OnRoomMessage \/ Resolve \/ SendText \/ Upload \/ Thumbnail \/ SendAttachment
    \/ NextLink

\* the runtime lets every task take its next step (each request is answered
\* or times out); which answer a request gets is left to the network, and
\* whether a signal arrives to the environment
Fairness == WF_vars(MainTask) /\ WF_vars(AbortTyper)

FairSpec == Spec /\ Fairness

(***************************************************************************)
(* The join tasks alone, from the tokio::spawn of on_stripped_state_member *)
(* on: the handler has spawned a task for each room and has returned.      *)
(***************************************************************************)
JoinInit ==
    /\ sup = "callback" /\ sleepFor = 0 /\ err = None
    /\ shouldDie = FALSE /\ sigTask = "waiting"
    /\ ev = NoEvent
    /\ hpc = "idle" /\ links = <<>> /\ idx = 0
    /\ tweet = None /\ to_upload = <<>> /\ calls = <<>> /\ hist = <<>> /\ acks = 0
    /\ ret = NoReturn /\ status = None
    /\ typers = 0
    /\ jt = [r \in Rooms |-> SpawnedJoinTask]

JoinNext == \E r \in Rooms : JoinAttempt(r) \/ JoinSleep(r)

JoinSpec ==
    /\ JoinInit /\ [][JoinNext]_vars
    /\ \A r \in Rooms : WF_vars(JoinAttempt(r) \/ JoinSleep(r))

(***************************************************************************)
(* Properties                                                              *)
(***************************************************************************)
InPostTweet ==
    hpc \in {"resolve", "send_text", "upload", "thumbnail", "attach", "ret_ok", "ret_err"}

\* the links of the current message a GET of api.fxtwitter.com was issued
\* for, in the order of the requests
Resolved ==
    [i \in 1..Len(hist) |-> hist[i].link]
        \o (IF InPostTweet /\ calls # <<>> THEN <<links[idx]>> ELSE <<>>)

\* C1: while one message is processed, no link is resolved against the embed
\* API more than once, wherever its occurrences stand in the body.
C1_EachLinkResolvedOnce ==
    \A i, j \in 1..Len(Resolved) : i # j => Resolved[i] # Resolved[j]

\* the errors of a session: resuming it, the first sync, the sync loop
SessionLevelErrors == {"restore_session", "sync_once", "sync"}
InSession ==
    {"load", "build", "restore_session", "sync_once", "max_upload_size", "sync",
     "dispatch", "callback"}

\* C2: a session that ends with a session-level error (whether or not the
\* shutdown flag is set) puts the supervisor into its 10 s sleep, never out
\* of its loop, and the sleep is followed by the start of a new session.
C2_SessionErrorRestarts ==
    /\ [][(sup \in SessionLevelErrors /\ sup' \notin InSession)
            => sup' = "sleeping" /\ sleepFor' = RestartDelay /\ err' = Some(sup)]_vars
    /\ [](err # None => sup = "sleeping" /\ sleepFor = RestartDelay)
    /\ [][(sup = "sleeping" /\ sup' # sup) => sup' = "load" /\ err' = None]_vars
    /\ [](sup = "sleeping" => ENABLED Restart)

\* a session has failed in its sync loop with the flag not set, and the
\* supervisor sleeps
C2_Witness ==
    /\ sup = "sleeping" /\ sleepFor = RestartDelay
    /\ err = Some("sync") /\ ~shouldDie

\* C3: once the shutdown flag is raised, the supervisor eventually stops.
C3_ShutdownStopsSupervisor == shouldDie ~> (sup \in {"exited", "crashed"})

\* on_room_message takes the step that consumes a text message of another
\* user, not an edit, in a joined room, whose body is the shutdown command
DieCommandHandled ==
    /\ sup = "dispatch" /\ ev.kind = "msg" /\ ev' = NoEvent
    /\ ev.room_state = "Joined" /\ ev.sender # Me
    /\ ev.msgtype = "text" /\ ~ev.replacement
    /\ ev.body = <<"!die">>

\* the callback of the sync loop runs with the flag set
CheckWithFlag == sup = "callback" /\ shouldDie /\ sup' # sup

\* C4 as the specification states it: the shutdown command of another user
\* in any joined room sets the flag, and the next check of the sync loop
\* ends the session with Ok: no error, no sleep, no restart.
C4_DieInAnyJoinedRoom ==
    [][/\ DieCommandHandled => shouldDie'
       /\ CheckWithFlag => sup' = "exited" /\ err' = None /\ sleepFor' = 0]_vars

\* C4 as amended: the same, for the joined rooms that are encrypted.
C4_DieInEncryptedJoinedRoom ==
    [][/\ (DieCommandHandled /\ ev.encrypted) => shouldDie' /\ sup' = "callback"
       /\ CheckWithFlag => sup' = "exited" /\ err' = None /\ sleepFor' = 0]_vars

\* the flag was raised by the command (the signal task still waits) and the
\* session has ended with Ok
C4_Witness ==
    /\ sup = "exited" /\ shouldDie /\ sigTask = "waiting"
    /\ err = None /\ sleepFor = 0

\* C5: the handler of an invite addressed to the running account starts a
\* join task for the room (stated here for the rooms that have a name; for
\* a room without one the handler returns before it looks at the name).
C5_InviteStartsJoinTask ==
    [][(/\ sup = "dispatch" /\ ev.kind = "invite" /\ ev' = NoEvent
        /\ ev.state_key = Me /\ IsSome(ev.name))
          => jt'[ev.room].pc # "none"]_vars

Abandoned(r) == \E i \in 1..Len(jt[r].log) : jt[r].log[i] = "Can't join room"

\* C6: a join task ends; the wait after its k-th failed attempt is 2^k s; it
\* is abandoned exactly when the doubled delay exceeds 3600 s, which is after
\* 11 failed attempts, and makes no attempt after that.
C6_JoinSequenceTerminates ==
    /\ [](\A r \in Rooms :
            /\ \A k \in 1..Len(jt[r].waits) : jt[r].waits[k] = 2^k
            /\ jt[r].attempts <= 11
            /\ Len(jt[r].waits) \in {jt[r].attempts - 1, jt[r].attempts}
            /\ Abandoned(r) <=> (~jt[r].joined /\ jt[r].delay > DelayCeiling)
            /\ Abandoned(r) => jt[r].pc = "done" /\ jt[r].attempts = 11
                                /\ Len(jt[r].waits) = 11
            /\ (jt[r].pc = "done" /\ ~jt[r].joined) => Abandoned(r))
    /\ [][\A r \in Rooms : Abandoned(r) => jt'[r] = jt[r]]_vars
    /\ \A r \in Rooms : <>(jt[r].pc = "done")

\* a task is abandoned after 11 failed attempts while another has joined
C6_Witness ==
    \E r, q \in Rooms :
        /\ Abandoned(r) /\ jt[r].attempts = 11 /\ jt[r].pc = "done"
        /\ jt[q].joined /\ jt[q].pc = "done"

\* C7: a link whose post_tweet returns an error does not end the for loop
\* over the links: every link before the current one has been attempted, in
\* the order of the Vec, and when the handler has returned, all have been.
C7_LinkFailureConfined ==
    /\ InPostTweet => Len(hist) = idx - 1 /\ idx <= Len(links) /\ sup = "dispatch"
    /\ hpc = "done" => Len(hist) = Len(links) /\ sup \in {"callback", "exited"}
    /\ \A i \in 1..Len(hist) : hist[i].link = links[i]

\* the handler has returned after a link that failed and a later link that
\* was republished with its attachment
C7_Witness ==
    /\ hpc = "done"
    /\ \E i, j \in 1..Len(hist) : i < j /\ ~hist[i].ok /\ hist[j].ok /\ hist[j].att

Ops(cs) == {cs[i].op : i \in 1..Len(cs)}
Has(cs, op, ok) == \E i \in 1..Len(cs) : cs[i] = Call(op, ok)

\* C8: the main file of a link is fetched only after the text of the link
\* was sent with success; when the fetch fails, the text stays sent, no
\* attachment is sent for the link, post_tweet returns the error to the for
\* loop, which goes on.
C8_FetchAfterTextAndFailureKeepsText ==
    /\ \A i \in 1..Len(calls) :
           calls[i].op = "fetch" => \E j \in 1..(i - 1) : calls[j] = Call("text", TRUE)
    /\ Has(calls, "fetch", FALSE) =>
           /\ Has(calls, "text", TRUE)
           /\ "attach" \notin Ops(calls)
           /\ hpc = "ret_err" /\ sup = "dispatch" /\ ENABLED NextLink

\* the fetch of the main file of a link has failed
C8_Witness == Has(calls, "fetch", FALSE) /\ Has(calls, "text", TRUE)

\* C9: for a link whose tweet has no media, one text send is issued and
\* neither a fetch nor an attachment send.
C9_NoMediaOneText ==
    (InPostTweet /\ tweet # None /\ Unwrap(tweet).media = None) =>
        /\ Ops(calls) \subseteq {"resolve", "text"}
        /\ Cardinality({i \in 1..Len(calls) : calls[i].op = "text"}) <= 1
        /\ hpc \in {"ret_ok", "ret_err"} => Len(calls) = 2 /\ calls[2].op = "text"

\* post_tweet has returned Ok for a tweet with no media
C9_Witness ==
    /\ hpc = "ret_ok" /\ tweet # None /\ Unwrap(tweet).media = None
    /\ calls = <<Call("resolve", TRUE), Call("text", TRUE)>>

\* the selection the priority rule names: the first video of a non-empty
\* list, else the mosaic, else the first photo of a non-empty list
PrioritySelection(media) ==
    IF IsSome(media.videos) /\ Unwrap(media.videos) # <<>>
    THEN <<Unwrap(media.videos)[1]>>
    ELSE IF IsSome(media.mosaic) THEN <<Unwrap(media.mosaic)>>
    ELSE IF IsSome(media.photos) /\ Unwrap(media.photos) # <<>>
    THEN <<Unwrap(media.photos)[1]>>
    ELSE <<>>

\* the selection of the media of the current link has just run
SelectionDone ==
    /\ hpc \in {"upload", "panicked"}
    /\ tweet # None /\ calls # <<>> /\ calls[Len(calls)] = Call("text", TRUE)

\* C10: the selection never aborts the processing of the message, and picks
\* what the priority rule names, at most one item.
C10_SelectionFollowsPriority ==
    SelectionDone =>
        /\ hpc # "panicked"
        /\ Len(to_upload) <= 1
        /\ [i \in 1..Len(to_upload) |-> to_upload[i].item]
              = PrioritySelection(Unwrap(Unwrap(tweet).media))

\* a token the filters of the allow-list accept, read off its written form
CandidateToken(t) ==
    /\ IsSome(Written(t))
    /\ Unwrap(Written(t)).scheme = "https"
    /\ AsciiLower(Unwrap(Written(t)).host) \in TARGETS
    /\ \E k \in 1..(Len(Unwrap(Written(t)).path) - 1) : Unwrap(Written(t)).path[k] = "status"

\* on_room_message takes the step that consumes a message event
MessageHandled == sup = "dispatch" /\ ev.kind = "msg" /\ ev' = NoEvent

\* C11: every link a resolution attempt is made for has the scheme https, a
\* host whose lower-cased form is in the allow-list and a path with the
\* marker /status/; a message with no such link starts no typer (the only
\* source of typing pulses), makes no resolution attempt and raises no error.
C11_OnlyAllowListedLinksResolved ==
    /\ [](\A i \in 1..Len(links) :
            /\ links[i].scheme = "https" /\ links[i].host # ""
            /\ AsciiLower(links[i].host) \in TARGETS
            /\ \E k \in 1..(Len(links[i].path) - 1) : links[i].path[k] = "status")
    /\ [][(MessageHandled /\ \A i \in 1..Len(ev.body) : ~CandidateToken(ev.body[i]))
            => /\ sup' = "callback" /\ hpc' = hpc /\ links' = links
               /\ calls' = calls /\ typers' = typers]_vars

\* the second link of a message is being resolved after the first
C11_Witness ==
    /\ InPostTweet /\ calls # <<>> /\ idx = 2
    /\ links[1].host = "fxtwitter.com" /\ links[2].host = "x.com"

\* the links of the tokens of a body the filters accept, in the order of
\* the body
RECURSIVE BodyLinks(_)
BodyLinks(body) ==
    IF body = <<>> THEN <<>>
    ELSE IF CandidateToken(Head(body))
         THEN <<[scheme |-> "https", host |-> AsciiLower(Unwrap(Written(Head(body))).host),
                 path |-> Unwrap(Written(Head(body))).path]>> \o BodyLinks(Tail(body))
         ELSE BodyLinks(Tail(body))

Elems(s) == {s[i] : i \in 1..Len(s)}

\* the place of the first occurrence of x in s
FirstIn(s, x) == CHOOSE i \in 1..Len(s) : s[i] = x /\ \A j \in 1..(i - 1) : s[j] # x

PolicyIgnores(e) ==
    \/ e.room_state # "Joined" \/ e.sender = Me \/ e.replacement \/ e.msgtype # "text"

\* the handler returns and nothing but the record of its return has changed
HandlerHasNoEffect ==
    /\ sup' = "callback"
    /\ UNCHANGED <<sleepFor, err, shouldDie, sigTask, hpc, links, idx, tweet, to_upload,
                   calls, hist, acks, status, typers, jt>>

\* C13: a message event of a room that is not joined, or of the running
\* account, or that is an edit, or whose body is no text, has no effect: no
\* send, no typer, no request, the shutdown flag as it was.
C13_IgnoredEventHasNoEffect ==
    [][(MessageHandled /\ PolicyIgnores(ev)) => HandlerHasNoEffect]_vars

\* the handler has returned for an edit whose body is the shutdown command,
\* and the flag is not set
C13_Witness == ret.at = "edit" /\ ret.held = "!die" /\ ~shouldDie /\ typers = 0

\* C14: a message that passes the early returns triggers a command exactly
\* when its trimmed body is the command: !status sends the acknowledgement
\* once, !die sets the shutdown flag, and neither starts the link pipeline.
C14_CommandsMatchTrimmedBody ==
    [][(MessageHandled /\ ~Ignored(ev)) =>
          /\ (Trim(ev.body) = <<"!status">>) <=> (acks' = acks + 1)
          /\ (Trim(ev.body) # <<"!status">>) => acks' = acks
          /\ (Trim(ev.body) = <<"!die">>) => shouldDie'
          /\ (Trim(ev.body) # <<"!die">>) => shouldDie' = shouldDie
          /\ (Trim(ev.body) \in {<<"!status">>, <<"!die">>})
                => sup' = "callback" /\ hpc' = hpc /\ links' = links /\ typers' = typers]_vars

\* C15: for a link whose resolution request is answered with a status that
\* is not 2xx, no text and no attachment is sent.
C15_BadStatusSkipsLink ==
    (InPostTweet /\ IsSome(status) /\ Unwrap(status) \notin 200..299) =>
        ~Has(calls, "text", TRUE) /\ ~Has(calls, "attach", TRUE)

\* C16: however the processing of the links of a message ends (the last
\* post_tweet returns Ok or Err, or the handler is aborted), the typer of the
\* message is left to a task that cancels it after the grace period.
C16_TyperCancelledWhateverOutcome ==
    [][(InPostTweet /\ ~InPostTweet') => typers' = typers /\ Leaving' = Leaving + 1]_vars

\* the media selected for the current link carries a thumbnail URL: it is a
\* video that is no gif
CarriesThumbnail ==
    /\ tweet # None /\ Unwrap(tweet).media # None
    /\ IsSome(Unwrap(Unwrap(tweet).media).videos)
    /\ Unwrap(Unwrap(Unwrap(tweet).media).videos) # <<>>
    /\ Unwrap(Unwrap(Unwrap(tweet).media).videos)[1] # "gif"

\* C17: for a link, at most one attachment send is issued, after the main
\* file, and the thumbnail when the media carries a thumbnail URL, were
\* fetched with success; when a fetch failed none is issued.
C17_AttachOnceAfterCompleteFetches ==
    /\ Cardinality({i \in 1..Len(calls) : calls[i].op = "attach"}) <= 1
    /\ \A i \in 1..Len(calls) :
          calls[i].op = "attach" =>
             /\ \E j \in 1..(i - 1) : calls[j] = Call("fetch", TRUE)
             /\ CarriesThumbnail => \E j \in 1..(i - 1) : calls[j] = Call("thumbnail", TRUE)
    /\ (Has(calls, "fetch", FALSE) \/ Has(calls, "thumbnail", FALSE))
          => "attach" \notin Ops(calls)

\* the attachment of a video was sent after both fetches
C17_Witness ==
    calls = <<Call("resolve", TRUE), Call("text", TRUE), Call("fetch", TRUE),
              Call("thumbnail", TRUE), Call("attach", TRUE)>>

\* the steps whose failure is fatal to the process: reading the stored
\* session, constructing the client
ProcessFatal == {"load", "build"}

\* C18: when the stored session cannot be read or the client cannot be
\* constructed, the process exits and the 10 s restart sleep is not entered.
C18_ProcessFatalExits ==
    (IsSome(err) /\ Unwrap(err) \in ProcessFatal) => sup = "exited" /\ sleepFor = 0

ReportedJoined(r) ==
    \E i \in 1..Len(jt[r].log) : jt[r].log[i] = "Successfully joined room"

C20_UnencryptedRoomHasNoEffect ==
    [][(MessageHandled /\ ev.room_state = "Joined" /\ ~ev.encrypted)
          => HandlerHasNoEffect]_vars

\* the handler has returned at the test of the encryption for a message
\* whose body is the status command, and no acknowledgement was sent
C20_Witness == ret.at = "not encrypted" /\ ret.held = "!status" /\ acks = 0

====
